---- MODULE Spec2Model ----
(***************************************************************************)
(* Netskope event collector (NetskopeEventCollector.py).                   *)
(*                                                                         *)
(* One invocation of main() is a run of the steps                          *)
(*   Start -> Request* -> [SetLastRun -> SendEvents] -> done               *)
(* Every vendor request, the write of the checkpoint and the hand-over to  *)
(* the forwarding sink are separate steps, because they are the calls to   *)
(* the outside world whose order and failure the checkpoint depends on.    *)
(* The host serialises invocations: a new one starts only when the         *)
(* previous one is done.                                                   *)
(***************************************************************************)
EXTENDS Integers, Sequences, FiniteSets, TLC

(* ------------------------------ bounds --------------------------------- *)
\* records the vendor returns in one behaviour (all types, all invocations)
MaxRecords == 2
\* record identifiers are 1..MaxId
MaxId == 2
\* record timestamps are 1..MaxTs
MaxTs == 2
\* invocations in one behaviour
MaxRuns == 2
\* the configured first-fetch lookback, in seconds
Lookback == 2
\* the host clock (epoch seconds) before the first invocation
StartTime == 2

(* ----------------------------- constants ------------------------------- *)
\* Python's None; every real timestamp is >= 0
None == -1
\* test_module, v1: last_run = {'alert': 604800}
TestTimeperiodV1 == 604800

EVENT_TYPES_V1 == <<"application", "audit", "network">>
EVENT_TYPES_V2 == <<"alert", "application", "audit", "network">>

Types == {"alert", "application", "audit", "network"}
Commands == {"test-module", "netskope-get-events", "fetch-events"}
Versions == {"v1", "v2"}

Ids == 1..MaxId
Timestamps == 1..MaxTs

\* a record as the vendor returns it, before the collector tags it
RawRecord == [id : Ids, timestamp : Timestamps]

RawBatches(n) ==
    UNION {[1..k -> RawRecord] : k \in 0..n}

\* What one _http_request call can produce: an exception (raise), or a parsed
\* body that carries the success marker (status == 'success' for v1, ok == 1
\* for v2) or not, and a list of records.
Responses(n) ==
    {[raise |-> TRUE, marker |-> FALSE, data |-> <<>>]}
    \cup [raise : {FALSE}, marker : BOOLEAN, data : RawBatches(n)]

EmptyRun == [t \in {} |-> None]

VARIABLES
    api_version,   \* params['api_version']
    first_fetch,   \* params['first_fetch']: None or a lookback in seconds
    now,           \* the host clock, epoch seconds
    persisted,     \* the host's last-run store (demisto.getLastRun/setLastRun)
    sink,          \* batches this invocation handed to send_events_to_xsiam
    pc,            \* position of the running invocation
    step,          \* index of the next step of the command after its requests
    command,       \* demisto.command()
    last_run,      \* main's local last_run
    events,        \* the tagged events collected so far
    requests,      \* requests issued in this invocation: [type, timeperiod]
    responses,     \* what they got: [raise, marker, n], n the number of records
    written,       \* setLastRun was called in this invocation
    outcome,       \* "none" while running, then "ok" or "error"
    start,         \* the store as it was when the invocation began
    received       \* records the vendor has returned so far

vars == <<api_version, first_fetch, now, persisted, sink, pc, step, command,
          last_run, events, requests, responses, written, outcome, start,
          received>>

(* ------------------------- helper functions ---------------------------- *)

\* dict.get(key)
Get(d, k) == IF k \in DOMAIN d THEN d[k] ELSE None

\* for event in results: event['event_type'] = event_type
Tag(data, event_type) ==
    [i \in 1..Len(data) |->
        [id |-> data[i].id, timestamp |-> data[i].timestamp, event_type |-> event_type]]

\* arg_to_datetime of a relative-time argument: that long before now
ArgToDatetime(arg, clock) == clock - arg

\* date_to_timestamp: milliseconds since the epoch
DateToTimestamp(dt) == dt * 1000

\* date_to_seconds_timestamp
DateToSecondsTimestamp(dt) == DateToTimestamp(dt) \div 1000

\* arg_to_seconds_timestamp
ArgToSecondsTimestamp(arg, clock) ==
    IF arg = None THEN None ELSE DateToSecondsTimestamp(ArgToDatetime(arg, clock))

\* [event for event in events if event.get('event_type') == event_type]
FilterByType(evs, event_type) ==
    SelectSeq(evs, LAMBDA e : e.event_type = event_type)

\* list.sort(key=_id) is stable: a record goes after every record whose key is
\* not greater than its own
RECURSIVE InsertById(_, _)
InsertById(sorted, e) ==
    IF sorted = <<>> THEN <<e>>
    ELSE IF sorted[Len(sorted)].id <= e.id THEN Append(sorted, e)
    ELSE Append(InsertById(SubSeq(sorted, 1, Len(sorted) - 1), e), sorted[Len(sorted)])

RECURSIVE SortById(_)
SortById(s) ==
    IF s = <<>> THEN <<>>
    ELSE InsertById(SortById(SubSeq(s, 1, Len(s) - 1)), s[Len(s)])

\* faulty variant: the partition is left in the order of the response
UnsortedEventsByType(evs, event_type) == FilterByType(evs, event_type)

\* get_sorted_events_by_type
GetSortedEventsByType(evs, event_type) == SortById(FilterByType(evs, event_type))

\* faulty variant: a type without records takes the audit watermark
GetLastRunAuditFallback(evs, lr) ==
    [t \in Types |->
        LET part == GetSortedEventsByType(evs, t)
        IN  IF part = <<>> THEN lr["audit"] ELSE part[Len(part)].timestamp]

\* get_last_run
GetLastRun(evs, lr) ==
    [t \in Types |->
        LET part == GetSortedEventsByType(evs, t)
        IN  IF part = <<>> THEN lr[t] ELSE part[Len(part)].timestamp]

(* ------------------------------ client --------------------------------- *)

\* faulty variant: the exception is swallowed and the loop goes on
RaisedSwallowed(response) == FALSE

\* an exception of _http_request is caught nowhere before main's except: it
\* leaves the request function and the try block
Raised(response) == response.raise

\* get_events_request_v1, loop body
V1EventsBody(evs, event_type, response) ==
    IF response.marker THEN evs \o Tag(response.data, event_type) ELSE evs

\* v1_get_alerts_request
V1GetAlertsRequest(response) ==
    IF response.marker THEN Tag(response.data, "alert") ELSE <<>>

\* callers of v1_get_alerts_request: if alerts: events.extend(alerts)
V1ExtendAlerts(evs, alerts) == IF alerts # <<>> THEN evs \o alerts ELSE evs

\* get_events_request_v2, loop body
V2EventsBody(evs, event_type, response) ==
    IF response.marker THEN evs \o Tag(response.data, event_type) ELSE evs

\* faulty variant: a response without the marker ends the loop
V2ReturnsOnFailure(response, is_test) == (~response.marker) \/ is_test

\* get_events_request_v2: the return inside the loop
V2Returns(response, is_test) == response.marker /\ is_test

(* ------------------------------- main ---------------------------------- *)

\* faulty variant: the watermarks are initialised on every invocation
InitLastRunAlways(stored, arg, clock) ==
    [t \in Types |-> ArgToSecondsTimestamp(arg, clock)]

\* main: last_run = demisto.getLastRun(), initialised when no type key is there
InitLastRun(stored, arg, clock) ==
    IF /\ "alert" \notin DOMAIN stored
       /\ "application" \notin DOMAIN stored
       /\ "audit" \notin DOMAIN stored
       /\ "network" \notin DOMAIN stored
    THEN [t \in Types |-> ArgToSecondsTimestamp(arg, clock)]
    ELSE stored

\* the event types a command asks the vendor for, in order
Plan(cmd, version) ==
    IF version = "v1"
    THEN IF cmd = "test-module" THEN <<"alert">> ELSE EVENT_TYPES_V1 \o <<"alert">>
    ELSE EVENT_TYPES_V2

IsTest(cmd) == cmd = "test-module"

\* the lower bound sent with the request for event_type
Timeperiod(cmd, version, lr, event_type) ==
    IF cmd = "test-module" /\ version = "v1"
    THEN Get(("alert" :> TestTimeperiodV1), event_type)
    ELSE Get(lr, event_type)

\* faulty variant: netskope-get-events persists and forwards too
CommandStepsGetEventsWrites(cmd) ==
    IF cmd = "test-module" THEN <<>> ELSE <<"persist", "send">>

\* faulty variant: fetch-events forwards before it persists
CommandStepsSendFirst(cmd) ==
    IF cmd = "fetch-events" THEN <<"send", "persist">> ELSE <<>>

\* the calls main makes to the host with the collected events: fetch-events
\* persists the checkpoint, then forwards; the other commands only return
CommandSteps(cmd) ==
    IF cmd = "fetch-events" THEN <<"persist", "send">> ELSE <<>>

\* timestamp_to_datestring: the display string of an epoch in milliseconds;
\* its format has whole seconds only
TimestampToDatestring(ms) == [datestring |-> ms \div 1000]

\* v1_get_events_command / v2_get_events_command:
\* for event in events: event['timestamp'] = timestamp_to_datestring(... * 1000)
ReshapeTimestamps(evs) ==
    [i \in 1..Len(evs) |->
        [evs[i] EXCEPT !.timestamp = TimestampToDatestring(evs[i].timestamp * 1000)]]

\* the event list a command holds when its request functions have returned:
\* netskope-get-events rewrites the timestamps in place for display,
\* fetch-events and test-module keep the raw records
CommandEvents(cmd, evs) ==
    IF cmd = "netskope-get-events" THEN ReshapeTimestamps(evs) ELSE evs

\* test_module: an empty response is not 'ok', and the else branch calls
\* .get on the list, which raises
TestModuleFails(cmd, evs) == cmd = "test-module" /\ evs = <<>>

StepAt(cmd, k) ==
    IF k <= Len(CommandSteps(cmd)) THEN CommandSteps(cmd)[k] ELSE "done"

Advance(k) ==
    /\ pc' = StepAt(command, k)
    /\ step' = k
    /\ outcome' = IF StepAt(command, k) = "done" THEN "ok" ELSE "none"

\* except Exception as e: return_error(...)
Fail ==
    /\ pc' = "done"
    /\ outcome' = "error"
    /\ UNCHANGED step

(* ------------------------------ actions -------------------------------- *)

Init ==
    /\ api_version \in Versions
    /\ first_fetch \in {None, Lookback}
    /\ now = StartTime
    /\ persisted = EmptyRun
    /\ sink = <<>>
    /\ pc = "idle"
    /\ step = 0
    /\ command = "test-module"
    /\ last_run = EmptyRun
    /\ events = <<>>
    /\ requests = <<>>
    /\ responses = <<>>
    /\ written = FALSE
    /\ outcome = "none"
    /\ start = EmptyRun
    /\ received = 0

\* the host invokes main(): lines 247-272
Start(cmd) ==
    /\ pc \in {"idle", "done"}
    /\ now < StartTime + MaxRuns
    /\ now' = now + 1
    /\ command' = cmd
    /\ last_run' = InitLastRun(persisted, first_fetch, now')
    /\ events' = <<>>
    /\ requests' = <<>>
    /\ responses' = <<>>
    /\ written' = FALSE
    /\ outcome' = "none"
    /\ step' = 0
    /\ pc' = "request"
    /\ start' = persisted
    /\ sink' = <<>>
    /\ UNCHANGED <<api_version, first_fetch, persisted, received>>

\* one iteration of the request loop of the command; the last one returns to
\* its caller, which gives the verdict of test-module, or reshapes the
\* timestamps and returns the results of netskope-get-events
Request(response) ==
    /\ pc = "request"
    /\ LET plan == Plan(command, api_version)
           i == Len(requests) + 1
           event_type == plan[i]
           collected ==
               IF api_version = "v2" THEN V2EventsBody(events, event_type, response)
               ELSE IF event_type = "alert"
                    THEN V1ExtendAlerts(events, V1GetAlertsRequest(response))
                    ELSE V1EventsBody(events, event_type, response)
           returns ==
               \/ i = Len(plan)
               \/ api_version = "v2" /\ V2Returns(response, IsTest(command))
       IN  /\ requests' = Append(requests,
                 [type |-> event_type,
                  timeperiod |-> Timeperiod(command, api_version, last_run, event_type)])
           /\ responses' = Append(responses,
                 [raise |-> response.raise, marker |-> response.marker,
                  n |-> Len(response.data)])
           /\ IF Raised(response)
              THEN Fail /\ UNCHANGED events
              ELSE /\ events' = IF returns THEN CommandEvents(command, collected)
                                         ELSE collected
                   /\ IF ~returns THEN UNCHANGED <<pc, step, outcome>>
                      ELSE IF TestModuleFails(command, collected) THEN Fail
                      ELSE Advance(1)
    /\ received' = received + Len(response.data)
    /\ UNCHANGED <<api_version, first_fetch, now, persisted, sink, command,
                   last_run, written, start>>

\* demisto.setLastRun(get_last_run(events, last_run))
SetLastRun ==
    /\ pc = "persist"
    /\ persisted' = GetLastRun(events, last_run)
    /\ written' = TRUE
    /\ Advance(step + 1)
    /\ UNCHANGED <<api_version, first_fetch, now, sink, command, last_run,
                   events, requests, responses, start, received>>

\* send_events_to_xsiam(events=events, ...): delivers, or raises
SendEvents ==
    /\ pc = "send"
    /\ \/ sink' = Append(sink, events) /\ Advance(step + 1)
       \/ Fail /\ UNCHANGED sink
    /\ UNCHANGED <<api_version, first_fetch, now, persisted, command, last_run,
                   events, requests, responses, written, start, received>>

Next ==
    \/ \E cmd \in Commands : Start(cmd)
    \/ \E response \in Responses(MaxRecords - received) : Request(response)
    \/ SetLastRun
    \/ SendEvents

Spec == Init /\ [][Next]_vars

(* ------------------------- checked properties -------------------------- *)

Raises == \E i \in 1..Len(responses) : responses[i].raise

\* the reorderings of a list
Perms(s) ==
    {[i \in 1..Len(s) |-> s[p[i]]] : p \in Permutations(1..Len(s))}

\* The timestamp of the record a stable sort by identifier puts last: among the
\* records with the greatest identifier, the one that came last in the list.
LastByIdTimestamp(part) ==
    LET top == CHOOSE m \in {part[i].id : i \in 1..Len(part)} :
                   \A i \in 1..Len(part) : part[i].id <= m
        j == CHOOSE k \in 1..Len(part) :
                 /\ part[k].id = top
                 /\ \A i \in 1..Len(part) : part[i].id = top => i <= k
    IN  part[j].timestamp

\* records of one type that share an identifier carry the same timestamp
SameIdSameTimestamp(part) ==
    \A i, j \in 1..Len(part) :
        part[i].id = part[j].id => part[i].timestamp = part[j].timestamp

\* C1: the checkpoint a fetch-events invocation writes for a type is never
\* below the value that was persisted for that type before the invocation.
C1_CheckpointNeverDecreases ==
    (written /\ DOMAIN start = Types) =>
        \A t \in Types : persisted[t] >= start[t]

\* C2: a type without a record in the batch keeps its previous checkpoint,
\* whatever the other types got, and applying get_last_run again with the same
\* batch keeps it once more.
C2_EmptyTypeKeepsCheckpoint ==
    written =>
        \A t \in Types :
            FilterByType(events, t) = <<>> =>
                /\ persisted[t] = last_run[t]
                /\ start # EmptyRun => persisted[t] = start[t]
                /\ GetLastRun(events, persisted)[t] = persisted[t]

C2_Witness ==
    /\ written
    /\ start # EmptyRun
    /\ \E t, u \in Types :
        /\ FilterByType(events, t) = <<>>
        /\ FilterByType(events, u) # <<>>
        /\ persisted[u] # last_run[u]
        /\ last_run[t] # last_run["audit"]

\* C3 as claimed: the checkpoint of a type with records is the timestamp of the
\* last record of its partition sorted by _id, and every permutation of the
\* event list gives the same checkpoint, shared identifiers included.
C3_AnyPermutationSameCheckpoint ==
    written =>
        \A t \in Types :
            LET part == FilterByType(events, t)
            IN  part # <<>> =>
                    /\ persisted[t] = LastByIdTimestamp(part)
                    /\ \A p \in Perms(events) :
                           GetLastRun(p, last_run)[t] = persisted[t]

\* C3 amended: the checkpoint of a type with records is the timestamp of the
\* last record of its partition after the stable sort by _id; every
\* permutation of the event list gives the same checkpoint provided the records
\* of that type that share an _id carry the same timestamp.
C3_PermutationSameCheckpoint ==
    written =>
        \A t \in Types :
            LET part == FilterByType(events, t)
            IN  part # <<>> =>
                    /\ persisted[t] = LastByIdTimestamp(part)
                    /\ SameIdSameTimestamp(part) =>
                           \A p \in Perms(events) :
                               GetLastRun(p, last_run)[t] = persisted[t]

C3_Witness ==
    /\ written
    /\ \E t \in Types :
        LET part == FilterByType(events, t)
        IN  /\ Len(part) = 2
            /\ part[1].id > part[2].id
            /\ part[1].timestamp # part[2].timestamp
            /\ persisted[t] = part[1].timestamp

\* C4: the persisted checkpoint is empty, or has exactly the four type keys,
\* each with an integer value (never None).
C4_FullyPopulated ==
    \/ DOMAIN persisted = {}
    \/ /\ DOMAIN persisted = Types
       /\ \A t \in Types : persisted[t] # None /\ persisted[t] \in Nat

\* C5: test-module and netskope-get-events never write the checkpoint: during
\* and after such an invocation the store is what it was at its start. Only
\* fetch-events calls setLastRun.
C5_OnlyFetchEventsWrites ==
    /\ written => command = "fetch-events"
    /\ (pc # "idle" /\ command # "fetch-events") => persisted = start

C5_Witness ==
    /\ command = "netskope-get-events"
    /\ pc = "done"
    /\ outcome = "ok"
    /\ events # <<>>
    /\ start # EmptyRun

\* C6: in test mode against v2, no request follows a response that yielded a
\* record, and the loop ends before the fourth type only at a type whose
\* response yielded a record.
C6_TestStopsAtFirstRecord ==
    (command = "test-module" /\ api_version = "v2" /\ pc # "idle") =>
        /\ \A i \in 1..Len(requests) :
               \A j \in 1..(i - 1) : ~(responses[j].marker /\ responses[j].n > 0)
        /\ (pc # "request" /\ ~Raises /\ Len(requests) < Len(EVENT_TYPES_V2))
               => events # <<>>

\* C7: in a full fetch loop (get-events or fetch-events, v1 or v2) a response
\* without the success marker adds no record of its type, raises no error and
\* does not end the loop: unless a request raised, every type of the plan is
\* asked, and every marked response's records are in the result.
C7_UnmarkedResponseSkipped ==
    (command # "test-module" /\ pc # "idle") =>
        /\ \A i \in 1..Len(responses) :
               LET part == FilterByType(events, requests[i].type)
               IN  /\ (~responses[i].raise /\ ~responses[i].marker) => part = <<>>
                   /\ responses[i].marker => Len(part) = responses[i].n
        /\ (outcome = "error" /\ ~written) => Raises
        /\ (pc # "request" /\ ~Raises) =>
               Len(requests) = Len(Plan(command, api_version))

C7_Witness ==
    /\ command = "fetch-events"
    /\ pc = "done"
    /\ outcome = "ok"
    /\ Len(responses) = 4
    /\ ~responses[1].marker /\ responses[1].n > 0
    /\ responses[2].marker /\ responses[2].n > 0
    /\ Len(sink) = 1 /\ Len(sink[1]) = responses[2].n

\* C8: a fetch-events invocation in which a vendor request raised ends in
\* error, with the checkpoint as it was at the start and nothing handed to
\* the sink.
C8_TransportFailureIsAtomic ==
    (command = "fetch-events" /\ Raises) =>
        /\ pc = "done"
        /\ outcome = "error"
        /\ ~written
        /\ persisted = start
        /\ sink = <<>>

C8_Witness ==
    /\ command = "fetch-events"
    /\ Raises
    /\ events # <<>>
    /\ start # EmptyRun

\* C9: an invocation that finds no checkpoint uses now - first_fetch as the
\* watermark of all four types; one that finds a checkpoint uses it as it is.
\* The watermarks are the lower bounds of the requests (but for test-module on
\* v1, which asks for a fixed period).
C9_WatermarkInitialisation ==
    pc # "idle" =>
        /\ IF DOMAIN start \cap Types = {}
           THEN \A t \in Types :
                    last_run[t] = IF first_fetch = None THEN None ELSE now - first_fetch
           ELSE last_run = start
        /\ \A i \in 1..Len(requests) :
               requests[i].timeperiod =
                   IF command = "test-module" /\ api_version = "v1"
                   THEN TestTimeperiodV1
                   ELSE last_run[requests[i].type]

C9_Witness ==
    /\ pc = "done"
    /\ command = "fetch-events"
    /\ first_fetch # None
    /\ start # EmptyRun
    /\ Len(requests) = 4
    /\ \E t \in Types : start[t] # now - first_fetch

\* the checkpoint get_last_run is to give type t
ExpectedCheckpoint(t) ==
    LET part == FilterByType(events, t)
    IN  IF part = <<>> THEN last_run[t] ELSE LastByIdTimestamp(part)

\* C10: in fetch-events the new checkpoint is persisted before the batch is
\* handed to the sink; when the hand-over fails the store already holds the
\* new watermarks, and the next invocation starts from them.
C10_PersistBeforeForward ==
    [][/\ Len(sink') > Len(sink) =>
            /\ written
            /\ persisted' = persisted
            /\ \A t \in Types : persisted[t] = ExpectedCheckpoint(t)
       /\ (pc = "send" /\ outcome' = "error") =>
            /\ written
            /\ \A t \in Types : persisted'[t] = ExpectedCheckpoint(t)
       /\ (written /\ outcome = "error" /\ pc' = "request") =>
            last_run' = persisted
      ]_vars

C10_Witness ==
    /\ pc = "done"
    /\ written
    /\ outcome = "error"
    /\ sink = <<>>
    /\ events # <<>>
    /\ persisted # last_run

====
